---------------------------- MODULE Spec2Model ----------------------------
(***************************************************************************)
(* Model of the observable data model toolkit of ResponseTracker:          *)
(*   Base::Event::Event / Subscriber / EventHandler   (event.h)            *)
(*   Base::Model::Property / Collection / SortView    (model.h)            *)
(*                                                                         *)
(* Everything runs on one thread.  An operation that fires an event is     *)
(* modelled by the step that runs its code up to the call of fire, one     *)
(* step per callback the loop of Event::fire invokes, and the step in      *)
(* which fire (and with it the operation) returns.  No top-level call      *)
(* starts while another one is still delivering (pc = "firing").           *)
(*                                                                         *)
(* A subscriber's identity is the address of its handler.  The handler     *)
(* types the repository connects (MyEventHandler, SingleEventHandler) have *)
(* EventHandler<Derived> as their only, public base, so the Derived*       *)
(* stored by connect and the this pointer the destructor passes to         *)
(* unsubscribe are the same address; the model names that address by the   *)
(* handler.                                                                *)
(***************************************************************************)
EXTENDS Integers, Sequences, FiniteSets, TLC

VARIABLES
    _subscribers,      \* Event::_subscribers, one vector per event
    _connectedEvents,  \* EventHandler::_connectedEvents, one vector per handler
    handlerAlive,      \* whether the handler object has not been destroyed yet
    _items,            \* Collection::_items: id -> owned item pointer (NULL: no key)
    _ids,              \* Collection::_ids
    heap,              \* the Item objects ever allocated with new
    pc,                \* "idle", or "firing" while Event::fire is in its loop
    call,              \* the top-level call that runs, or ran last
    fireEvent,         \* the event fire was called on (NoEvent: none yet)
    fireIdx,           \* position of the range-for loop of fire in _subscribers
    registered,        \* the entries of that event when fire was called
    invoked,           \* the entries fire has invoked so far, in order
    fired,             \* the fire calls made by the current top-level call
    result,            \* what the last addCopy or Property::value returned
    sortView,          \* SortView::_sortedIds of the SortView the last sort returned
    invalidated,       \* the iterators of the loop of fire point into a freed buffer
    thrown,            \* the exception that left the last top-level call
    _value,            \* Property::_value, one optional per Property
    compared,          \* the operands and results of the last comparison made
    eventAlive,        \* whether the Event object has not been destroyed yet
    frames             \* the calls of SortView::at(int) now on the stack

vars == <<_subscribers, _connectedEvents, handlerAlive, _items, _ids, heap,
          pc, call, fireEvent, fireIdx, registered, invoked, fired, result,
          sortView, invalidated, thrown, _value, compared, eventAlive, frames>>

eventVars == <<_subscribers, _connectedEvents, handlerAlive, eventAlive>>
collectionVars == <<_items, _ids, heap>>
fireVars == <<fireEvent, fireIdx, registered, invoked, invalidated>>
propertyVars == <<_value, compared>>
viewVars == <<sortView, frames>>

----------------------------------------------------------------------------
(* Bounds *)

MaxConnections == 2   \* connect calls one handler makes
MaxItems == 3         \* Item objects allocated over a run
MaxFrames == 3        \* calls of SortView::at(int) the stack has room for

----------------------------------------------------------------------------
(* Universe *)

Handlers == {"myHandler", "myHandler2"}
Observers == {"myHandler"}
StandaloneEvents == {"myEvent", "otherEvent"}
CollectionEvents == {"itemAdded", "itemRemoved", "cleared"}
Properties == {"p1", "p2"}
PropertyEvents == {"p1.valueChanged", "p1.cleared", "p2.valueChanged", "p2.cleared"}
Events == StandaloneEvents \cup CollectionEvents \cup PropertyEvents
NoEvent == "none"
Methods == {"handleEvent"}
TwoMethods == {"handleEvent", "handleOther"}   \* handlers with a second method

Ids == {1, 2}
Values == {"a", "b"}
Ptrs == 1..MaxItems
NULL == 0
NoId == 0
NoValue == "-"
PropertyValues == {10, 20}      \* the T of Property<int>
BareValues == {0, 10, 20}       \* the values a Property<int> is compared with
NoException == "none"
CallbackError == "callback error"   \* what a failing callback throws

Range(s) == {s[i] : i \in DOMAIN s}

----------------------------------------------------------------------------
(* Event *)

\* Subscriber::Subscriber(eventHandler, eventHandlerMethod)
Subscriber(eventHandler, eventHandlerMethod) ==
    [_eventHandler |-> eventHandler, _handlerMethod |-> eventHandlerMethod]

\* Subscriber::representsEventHandler
representsEventHandler(subscriber, eventHandler) ==
    subscriber._eventHandler = eventHandler

NotRepresenting(subscribers, eventHandler) ==
    SelectSeq(subscribers, LAMBDA sub : sub._eventHandler # eventHandler)

\* [mutant] only the first entry of the handler is removed
remove_first(subscribers, eventHandler) ==
    IF \E i \in DOMAIN subscribers : subscribers[i]._eventHandler = eventHandler
    THEN LET i == CHOOSE i \in DOMAIN subscribers :
                      /\ subscribers[i]._eventHandler = eventHandler
                      /\ \A j \in 1..(i - 1) : subscribers[j]._eventHandler # eventHandler
         IN  SubSeq(subscribers, 1, i - 1) \o SubSeq(subscribers, i + 1, Len(subscribers))
    ELSE subscribers

\* std::remove_if + erase: the entries for which the predicate is false,
\* in their old relative order
RECURSIVE remove_if(_, _)
remove_if(subscribers, eventHandler) ==
    IF subscribers = <<>> THEN <<>>
    ELSE IF representsEventHandler(Head(subscribers), eventHandler)
         THEN remove_if(Tail(subscribers), eventHandler)
         ELSE <<Head(subscribers)>> \o remove_if(Tail(subscribers), eventHandler)

\* Event::unsubscribe, as a function of the subscriber vectors
unsubscribe(subs, event, eventHandler) ==
    [subs EXCEPT ![event] = remove_if(subs[event], eventHandler)]

\* [mutant] subscribe ignores a handler/method pair the event already holds
subscribe_dedup(subs, event, eventHandler, handlerMethod) ==
    IF \E i \in DOMAIN subs[event] :
           subs[event][i] = [_eventHandler |-> eventHandler, _handlerMethod |-> handlerMethod]
    THEN subs
    ELSE [subs EXCEPT ![event] =
             Append(subs[event], [_eventHandler |-> eventHandler, _handlerMethod |-> handlerMethod])]

\* Event::subscribe, as a function of the subscriber vectors
subscribe(subs, event, eventHandler, handlerMethod) ==
    [subs EXCEPT ![event] = Append(subs[event], Subscriber(eventHandler, handlerMethod))]

\* [mutant] the loop ends one entry early
fireAtEnd_offByOne(event, idx) == idx >= Len(registered)

\* the loop condition of Event::fire: the iterator has reached end(), which
\* the range-for evaluated once, when the loop began
fireAtEnd(event, idx) == idx > Len(registered)

\* the iterator of the loop points at an entry of the vector as it now is
fireAtEntry(event, idx) == ~invalidated /\ idx \in DOMAIN _subscribers[event]

\* [mutant] the destructor stops after the first recorded event
unsubscribeFirstOnly(subs, connected, eventHandler) ==
    IF connected = <<>> THEN subs
    ELSE [subs EXCEPT ![Head(connected)] = NotRepresenting(@, eventHandler)]

\* ~EventHandler: unsubscribe(this) on every recorded event, in recording order
RECURSIVE unsubscribeAll(_, _, _)
unsubscribeAll(subs, connected, eventHandler) ==
    IF connected = <<>> THEN subs
    ELSE unsubscribeAll(unsubscribe(subs, Head(connected), eventHandler),
                        Tail(connected), eventHandler)

----------------------------------------------------------------------------
(* Collection: queries *)

\* [mutant] membership is read from the id set instead of the mapping
contains_inIds(id) == id \in _ids

\* Collection::contains: _items.count(id) > 0
contains(id) == _items[id] # NULL

\* Collection::size: _items.size()
sizeOf(items) == Cardinality({id \in Ids : items[id] # NULL})
size == sizeOf(_items)

\* Collection::isEmpty: _items.empty()
isEmpty == \A id \in Ids : _items[id] = NULL

\* Collection::ids
ids == _ids

\* Collection::_idFunction applied to *item (MyModel::id in the tests)
_idFunction(item) == heap[item].id

\* the heap: an object not allocated yet, and one whose destructor has run
\* (its fields are gone with it)
FreeItem == [id |-> NoId, val |-> NoValue, state |-> "free"]
DestroyedItem == [id |-> NoId, val |-> NoValue, state |-> "destroyed"]

\* new Item(...): the object the allocator hands out next
HasFree == \E p \in Ptrs : heap[p].state = "free"
NewPtr == CHOOSE p \in Ptrs :
              /\ heap[p].state = "free"
              /\ \A q \in Ptrs : q < p => heap[q].state # "free"

----------------------------------------------------------------------------
(* Property: the optional it wraps, its queries and its comparisons *)

\* std::optional<T>: without a value, or holding one
nullopt == <<>>
optional(v) == <<v>>
Optionals == {nullopt} \cup {optional(v) : v \in PropertyValues}
has_value(o) == o # nullopt

\* [mutant] value() of an empty optional yields a default-constructed T
value_or_default(o) ==
    IF has_value(o) THEN [thrown |-> NoException, returned |-> o[1]]
                    ELSE [thrown |-> NoException, returned |-> 0]

\* std::optional::value(): the value held, or std::bad_optional_access thrown
value(o) ==
    IF has_value(o) THEN [thrown |-> NoException, returned |-> o[1]]
                    ELSE [thrown |-> "bad_optional_access"]

\* Property::Property() and Property::Property(value)
Property == nullopt
PropertyOf(v) == optional(v)

\* Property::isEmpty and Property::hasValue
Property_isEmpty(p) == ~has_value(_value[p])
Property_hasValue(p) == has_value(_value[p])

\* [mutant] a Property with one event for both kinds of change
valueChangedEvent_shared(p) == IF p = "p1" THEN "p1.cleared" ELSE "p2.cleared"

\* the valueChanged and cleared events of a Property
valueChangedEvent(p) == IF p = "p1" THEN "p1.valueChanged" ELSE "p2.valueChanged"
clearedEvent(p) == IF p = "p1" THEN "p1.cleared" ELSE "p2.cleared"

\* no comparison made yet
NoComparison ==
    [kind |-> "none", lhs |-> nullopt, rhs |-> nullopt, x |-> 0,
     eq |-> FALSE, ne |-> FALSE, lt |-> FALSE, gt |-> FALSE]

----------------------------------------------------------------------------
(* Initial state: events without subscribers, live handlers connected to   *)
(* nothing, an empty collection, nothing allocated, no call made.          *)

\* a top-level call: the operation, the id and item it is about, the value
\* passed in (of the item, or the comparator of sort) and size() when it was
\* made
Call(op, id, item, val, n) == [op |-> op, id |-> id, item |-> item, val |-> val, size |-> n]
NoCall == Call("none", NoId, NULL, NoValue, 0)

\* the state after construction, the Properties constructed as values says
Constructed(values) ==
    /\ _subscribers = [e \in Events |-> <<>>]
    /\ _connectedEvents = [h \in Handlers |-> <<>>]
    /\ handlerAlive = [h \in Handlers |-> TRUE]
    /\ _items = [id \in Ids |-> NULL]
    /\ _ids = {}
    /\ heap = [p \in Ptrs |-> FreeItem]
    /\ pc = "idle"
    /\ call = NoCall
    /\ fireEvent = NoEvent
    /\ fireIdx = 0
    /\ registered = <<>>
    /\ invoked = <<>>
    /\ fired = <<>>
    /\ result = NULL
    /\ sortView = <<>>
    /\ invalidated = FALSE
    /\ thrown = NoException
    /\ _value = values
    /\ compared = NoComparison
    /\ eventAlive = [e \in Events |-> TRUE]
    /\ frames = 0

\* every Property constructed without a value
Init == Constructed([p \in Properties |-> Property])

\* each Property constructed without a value or with one
InitProperty ==
    \E values \in [Properties -> {Property} \cup {PropertyOf(v) : v \in PropertyValues}] :
        Constructed(values)

----------------------------------------------------------------------------
(* Event and EventHandler operations *)

\* EventHandler::connect(event, handlerMethod)
Connect(h, e, m) ==
    /\ pc = "idle"
    /\ handlerAlive[h]
    /\ eventAlive[e]
    /\ Len(_connectedEvents[h]) < MaxConnections
    /\ _subscribers' = subscribe(_subscribers, e, h, m)
    /\ _connectedEvents' = [_connectedEvents EXCEPT ![h] = Append(@, e)]
    /\ call' = Call("connect", NoId, NULL, NoValue, size)
    /\ thrown' = NoException
    /\ fired' = <<>>
    /\ UNCHANGED <<handlerAlive, eventAlive, collectionVars, pc, fireVars, result, viewVars, propertyVars>>

\* Event::unsubscribe(eventHandler), called by client code
Unsubscribe(e, h) ==
    /\ pc = "idle"
    /\ eventAlive[e]
    /\ _subscribers' = unsubscribe(_subscribers, e, h)
    /\ call' = Call("unsubscribe", NoId, NULL, NoValue, size)
    /\ thrown' = NoException
    /\ fired' = <<>>
    /\ UNCHANGED <<_connectedEvents, handlerAlive, eventAlive, collectionVars, pc, fireVars, result, viewVars, propertyVars>>

\* the recorded events that still exist, and those recorded before the first
\* that does not
stillAlive(connected) == SelectSeq(connected, LAMBDA e : eventAlive[e])
RECURSIVE aliveBefore(_)
aliveBefore(connected) ==
    IF connected = <<>> \/ ~eventAlive[Head(connected)] THEN <<>>
    ELSE <<Head(connected)>> \o aliveBefore(Tail(connected))

\* Event::~Event (implicit): the subscribers are destroyed with the vector;
\* the EventHandlers that recorded the event are not told, their
\* _connectedEvents keep the pointer
DestroyEvent(e) ==
    /\ pc = "idle"
    /\ eventAlive[e]
    /\ eventAlive' = [eventAlive EXCEPT ![e] = FALSE]
    /\ _subscribers' = [_subscribers EXCEPT ![e] = <<>>]
    /\ call' = Call("~Event", NoId, NULL, NoValue, size)
    /\ thrown' = NoException
    /\ fired' = <<>>
    /\ UNCHANGED <<_connectedEvents, handlerAlive, collectionVars, pc, fireVars,
                   result, viewVars, propertyVars>>

\* EventHandler::~EventHandler when a recorded event was destroyed before:
\* event->unsubscribe(this) is a virtual call through a dangling pointer.
\* Either the call crashes, the events recorded before it having been
\* unsubscribed from, or the loop runs through and the calls on the dead
\* events find nothing to remove.
DestroyHandlerDangling(h) ==
    /\ pc = "idle"
    /\ handlerAlive[h]
    /\ \E e \in Range(_connectedEvents[h]) : ~eventAlive[e]
    /\ handlerAlive' = [handlerAlive EXCEPT ![h] = FALSE]
    /\ call' = Call("destroyHandler", NoId, NULL, NoValue, size)
    /\ thrown' = NoException
    /\ fired' = <<>>
    /\ \/ /\ pc' = "crashed"
          /\ _subscribers' =
                unsubscribeAll(_subscribers, aliveBefore(_connectedEvents[h]), h)
       \/ /\ pc' = pc
          /\ _subscribers' =
                unsubscribeAll(_subscribers, stillAlive(_connectedEvents[h]), h)
    /\ UNCHANGED <<_connectedEvents, eventAlive, collectionVars, fireVars, result,
                   viewVars, propertyVars>>

\* EventHandler::~EventHandler, every recorded event still existing
DestroyHandler(h) ==
    /\ pc = "idle"
    /\ handlerAlive[h]
    /\ \A e \in Range(_connectedEvents[h]) : eventAlive[e]
    /\ _subscribers' = unsubscribeAll(_subscribers, _connectedEvents[h], h)
    /\ handlerAlive' = [handlerAlive EXCEPT ![h] = FALSE]
    /\ call' = Call("destroyHandler", NoId, NULL, NoValue, size)
    /\ thrown' = NoException
    /\ fired' = <<>>
    /\ UNCHANGED <<_connectedEvents, eventAlive, collectionVars, pc, fireVars, result,
                   viewVars, propertyVars>>

\* the entry of Event::fire(args...): the range-for takes begin()
fire(e, id, item) ==
    /\ pc' = "firing"
    /\ fireEvent' = e
    /\ fireIdx' = 1
    /\ registered' = _subscribers[e]
    /\ invoked' = <<>>
    /\ invalidated' = FALSE
    /\ fired' = <<[event |-> e, id |-> id, item |-> item]>>

\* Event::fire called by client code on a standalone event
Fire(e) ==
    /\ pc = "idle"
    /\ eventAlive[e]
    /\ call' = Call("fire", NoId, NULL, NoValue, size)
    /\ thrown' = NoException
    /\ fire(e, NoId, NULL)
    /\ UNCHANGED <<eventVars, collectionVars, result, viewVars, propertyVars>>

\* one pass of the loop body of Event::fire: subscriber->invoke(args...)
Invoke ==
    /\ pc = "firing"
    /\ ~fireAtEnd(fireEvent, fireIdx)
    /\ fireAtEntry(fireEvent, fireIdx)
    /\ invoked' = Append(invoked, _subscribers[fireEvent][fireIdx])
    /\ fireIdx' = fireIdx + 1
    /\ UNCHANGED <<eventVars, collectionVars, pc, call, fireEvent, registered,
                   invalidated, fired, result, viewVars, thrown, propertyVars>>

\* the loop of Event::fire ends; fire and the operation that called it return
FireReturn ==
    /\ pc = "firing"
    /\ fireAtEnd(fireEvent, fireIdx)
    /\ pc' = "idle"
    /\ result' = IF call.op = "addCopy" THEN call.item ELSE result
    /\ UNCHANGED <<eventVars, collectionVars, call, fireVars, fired, viewVars,
                   thrown, propertyVars>>

\* [mutant] fire notes the failure and goes on with the next subscriber
InvokeThrows_continues ==
    /\ pc = "firing"
    /\ ~fireAtEnd(fireEvent, fireIdx)
    /\ fireAtEntry(fireEvent, fireIdx)
    /\ invoked' = Append(invoked, _subscribers[fireEvent][fireIdx])
    /\ fireIdx' = fireIdx + 1
    /\ thrown' = CallbackError
    /\ UNCHANGED <<eventVars, collectionVars, pc, call, fireEvent, registered,
                   invalidated, fired, result, viewVars, propertyVars>>

\* one pass of the loop body of Event::fire in which the callback throws:
\* nothing in invoke, in fire or in the operation that called fire catches,
\* so the exception leaves the loop, fire and the top-level call
InvokeThrows ==
    /\ pc = "firing"
    /\ ~fireAtEnd(fireEvent, fireIdx)
    /\ fireAtEntry(fireEvent, fireIdx)
    /\ invoked' = Append(invoked, _subscribers[fireEvent][fireIdx])
    /\ thrown' = CallbackError
    /\ pc' = "idle"
    /\ UNCHANGED <<eventVars, collectionVars, call, fireEvent, fireIdx, registered,
                   invalidated, fired, result, viewVars, propertyVars>>

\* one pass of the loop body of Event::fire in which the callback calls
\* unsubscribe(h) on the event that is firing: remove_if + erase shift the
\* vector under the loop, and an erase that removes an entry invalidates the
\* iterators the loop holds
InvokeUnsubscribing(h) ==
    /\ pc = "firing"
    /\ ~fireAtEnd(fireEvent, fireIdx)
    /\ fireAtEntry(fireEvent, fireIdx)
    /\ invoked' = Append(invoked, _subscribers[fireEvent][fireIdx])
    /\ fireIdx' = fireIdx + 1
    /\ _subscribers' = unsubscribe(_subscribers, fireEvent, h)
    /\ invalidated' = (_subscribers' # _subscribers)
    /\ UNCHANGED <<_connectedEvents, handlerAlive, eventAlive, collectionVars, pc, call,
                   fireEvent, registered, fired, result, viewVars, thrown,
                   propertyVars>>

\* one pass of the loop body of Event::fire in which the callback calls
\* h.connect(event, m) on the event that is firing: push_back invalidates
\* end(), and every iterator when it reallocates
InvokeConnecting(h, m) ==
    /\ pc = "firing"
    /\ ~fireAtEnd(fireEvent, fireIdx)
    /\ fireAtEntry(fireEvent, fireIdx)
    /\ handlerAlive[h]
    /\ Len(_connectedEvents[h]) < MaxConnections
    /\ invoked' = Append(invoked, _subscribers[fireEvent][fireIdx])
    /\ fireIdx' = fireIdx + 1
    /\ _subscribers' = subscribe(_subscribers, fireEvent, h, m)
    /\ _connectedEvents' = [_connectedEvents EXCEPT ![h] = Append(@, fireEvent)]
    /\ invalidated' = TRUE
    /\ UNCHANGED <<handlerAlive, eventAlive, collectionVars, pc, call, fireEvent, registered,
                   fired, result, viewVars, thrown, propertyVars>>

\* what an invalidated iterator can yield: an entry the vector holds or held
StaleEntries == Range(registered) \cup Range(_subscribers[fireEvent])

\* one pass of the loop of Event::fire through an invalidated iterator:
\* undefined behaviour, whose outcomes are a crash or the invocation of
\* whatever entry the memory read yields
InvokeInvalidated ==
    /\ pc = "firing"
    /\ ~fireAtEnd(fireEvent, fireIdx)
    /\ ~fireAtEntry(fireEvent, fireIdx)
    /\ \/ /\ pc' = "crashed"
          /\ UNCHANGED <<invoked, fireIdx>>
       \/ /\ \E entry \in StaleEntries : invoked' = Append(invoked, entry)
          /\ fireIdx' = fireIdx + 1
          /\ UNCHANGED pc
    /\ UNCHANGED <<eventVars, collectionVars, call, fireEvent, registered,
                   invalidated, fired, result, viewVars, thrown, propertyVars>>

----------------------------------------------------------------------------
(* Collection operations *)

\* new Item: the allocator hands out the object at NewPtr
allocate(id, val) ==
    [heap EXCEPT ![NewPtr] = [id |-> id, val |-> val, state |-> "alive"]]

\* [mutant] add without the check for an id already present
add_unchecked(h, item) ==
    /\ _ids' = _ids \cup {h[item].id}
    /\ _items' = [_items EXCEPT ![h[item].id] = item]
    /\ heap' = h
    /\ fire("itemAdded", h[item].id, item)

\* [mutant] add deletes an item it does not adopt
add_deletesDuplicate(h, item) ==
    LET id == h[item].id IN
    IF ~contains(id)
    THEN /\ _ids' = _ids \cup {id}
         /\ _items' = [_items EXCEPT ![id] = item]
         /\ heap' = h
         /\ fire("itemAdded", id, item)
    ELSE /\ heap' = [h EXCEPT ![item] = DestroyedItem]
         /\ fired' = <<>>
         /\ UNCHANGED <<_items, _ids, pc, fireVars>>

\* Collection::add(item), on the heap h in which *item lives
add(h, item) ==
    LET id == h[item].id IN
    IF ~contains(id)
    THEN /\ _ids' = _ids \cup {id}
         /\ _items' = [_items EXCEPT ![id] = item]
         /\ heap' = h
         /\ fire("itemAdded", id, item)
    ELSE /\ heap' = h
         /\ fired' = <<>>
         /\ UNCHANGED <<_items, _ids, pc, fireVars>>

\* client code: collection.add(new Item(id, val))
Add(id, val) ==
    /\ pc = "idle"
    /\ HasFree
    /\ call' = Call("add", id, NewPtr, val, size)
    /\ thrown' = NoException
    /\ add(allocate(id, val), NewPtr)
    /\ result' = NULL
    /\ UNCHANGED <<eventVars, viewVars, propertyVars>>

\* Collection::addCopy(item): copy = new Item(item); add(copy); return copy
AddCopy(id, val) ==
    /\ pc = "idle"
    /\ HasFree
    /\ call' = Call("addCopy", id, NewPtr, val, size)
    /\ thrown' = NoException
    /\ add(allocate(id, val), NewPtr)
    /\ result' = IF contains(id) THEN NewPtr ELSE NULL
    /\ UNCHANGED <<eventVars, viewVars, propertyVars>>

\* [mutant] removeById leaves the id in the id set
removeById_keepsId(id) ==
    IF contains(id)
    THEN /\ heap' = [heap EXCEPT ![_items[id]] = DestroyedItem]
         /\ _items' = [_items EXCEPT ![id] = NULL]
         /\ UNCHANGED _ids
         /\ fire("itemRemoved", id, NULL)
    ELSE /\ fired' = <<>>
         /\ UNCHANGED <<collectionVars, pc, fireVars>>

\* [mutant] removeById erases and notifies without looking at what erase did
removeById_unchecked(id) ==
    /\ heap' = [p \in Ptrs |-> IF p = _items[id] THEN DestroyedItem ELSE heap[p]]
    /\ _items' = [_items EXCEPT ![id] = NULL]
    /\ _ids' = _ids \ {id}
    /\ fire("itemRemoved", id, NULL)

\* Collection::removeById(id): _items.erase(id) destroys the owned item, then
\* _ids.erase(id), then the event is fired
removeById(id) ==
    IF contains(id)
    THEN /\ heap' = [heap EXCEPT ![_items[id]] = DestroyedItem]
         /\ _items' = [_items EXCEPT ![id] = NULL]
         /\ _ids' = _ids \ {id}
         /\ fire("itemRemoved", id, NULL)
    ELSE /\ fired' = <<>>
         /\ UNCHANGED <<collectionVars, pc, fireVars>>

\* [mutant] the SortView is a live view: a removed id leaves it as well
RemoveById_liveView(id) ==
    /\ pc = "idle"
    /\ call' = Call("removeById", id, _items[id], NoValue, size)
    /\ thrown' = NoException
    /\ removeById(id)
    /\ result' = NULL
    /\ sortView' = SelectSeq(sortView, LAMBDA x : x # id)
    /\ UNCHANGED <<eventVars, frames, propertyVars>>

\* Collection::removeById(id), called by client code
RemoveById(id) ==
    /\ pc = "idle"
    /\ call' = Call("removeById", id, _items[id], NoValue, size)
    /\ thrown' = NoException
    /\ removeById(id)
    /\ result' = NULL
    /\ UNCHANGED <<eventVars, viewVars, propertyVars>>

\* getItemId(item) as Collection::remove calls it. The class has no member
\* of that name any more (the function given at construction is kept in
\* _idFunction): the call is bound, where remove is instantiated, to
\* whatever function getItemId argument-dependent lookup finds for Item, and
\* that function may return any Id. The ids it can return:
getItemId(item) == Ids

\* a call of remove: the item passed, the id getItemId gave for it and the
\* item the collection stores under that id
RemoveCall(item, id) ==
    [op |-> "remove", id |-> id, item |-> _items[id], val |-> NoValue,
     size |-> size, passed |-> item]

\* Collection::remove(item): removeById(getItemId(item))
Remove(item) ==
    /\ pc = "idle"
    /\ heap[item].state = "alive"
    /\ \E id \in getItemId(item) :
          /\ call' = RemoveCall(item, id)
          /\ removeById(id)
    /\ thrown' = NoException
    /\ result' = NULL
    /\ UNCHANGED <<eventVars, viewVars, propertyVars>>

\* [mutant] clear notifies only when it removed something
Clear_guarded ==
    /\ pc = "idle"
    /\ call' = Call("clear", NoId, NULL, NoValue, size)
    /\ thrown' = NoException
    /\ heap' = [p \in Ptrs |->
                  IF \E id \in Ids : _items[id] = p THEN DestroyedItem ELSE heap[p]]
    /\ _items' = [id \in Ids |-> NULL]
    /\ UNCHANGED _ids
    /\ IF size > 0 THEN fire("cleared", NoId, NULL)
                   ELSE fired' = <<>> /\ UNCHANGED <<pc, fireVars>>
    /\ result' = NULL
    /\ UNCHANGED <<eventVars, viewVars, propertyVars>>

\* Collection::clear: _items.clear() destroys every owned item; _ids is not
\* touched; then the event is fired
Clear ==
    /\ pc = "idle"
    /\ call' = Call("clear", NoId, NULL, NoValue, size)
    /\ thrown' = NoException
    /\ heap' = [p \in Ptrs |->
                  IF \E id \in Ids : _items[id] = p
                  THEN DestroyedItem ELSE heap[p]]
    /\ _items' = [id \in Ids |-> NULL]
    /\ UNCHANGED _ids
    /\ fire("cleared", NoId, NULL)
    /\ result' = NULL
    /\ UNCHANGED <<eventVars, viewVars, propertyVars>>

\* one pass of the loop body of Event::fire, delivering itemAdded, in which
\* the callback calls removeById(id) on the collection: the item is erased
\* and destroyed and itemRemoved is fired inside the callback (to nobody:
\* the event has no subscriber), then the outer loop goes on
InvokeRemovingById(id) ==
    /\ pc = "firing"
    /\ fireEvent = "itemAdded"
    /\ _subscribers["itemRemoved"] = <<>>
    /\ ~fireAtEnd(fireEvent, fireIdx)
    /\ fireAtEntry(fireEvent, fireIdx)
    /\ invoked' = Append(invoked, _subscribers[fireEvent][fireIdx])
    /\ fireIdx' = fireIdx + 1
    /\ IF contains(id)
       THEN /\ heap' = [heap EXCEPT ![_items[id]] = DestroyedItem]
            /\ _items' = [_items EXCEPT ![id] = NULL]
            /\ _ids' = _ids \ {id}
            /\ fired' = Append(fired, [event |-> "itemRemoved", id |-> id,
                                       item |-> NULL])
       ELSE UNCHANGED <<collectionVars, fired>>
    /\ UNCHANGED <<eventVars, pc, call, fireEvent, registered, invalidated,
                   result, viewVars, thrown, propertyVars>>

\* one pass of the loop body of Event::fire, delivering itemAdded, in which
\* the callback calls clear() on the collection: every item is destroyed
\* and cleared is fired inside the callback (to nobody)
InvokeClearing ==
    /\ pc = "firing"
    /\ fireEvent = "itemAdded"
    /\ _subscribers["cleared"] = <<>>
    /\ ~fireAtEnd(fireEvent, fireIdx)
    /\ fireAtEntry(fireEvent, fireIdx)
    /\ invoked' = Append(invoked, _subscribers[fireEvent][fireIdx])
    /\ fireIdx' = fireIdx + 1
    /\ heap' = [p \in Ptrs |->
                  IF \E id \in Ids : _items[id] = p
                  THEN DestroyedItem ELSE heap[p]]
    /\ _items' = [id \in Ids |-> NULL]
    /\ fired' = Append(fired, [event |-> "cleared", id |-> NoId, item |-> NULL])
    /\ UNCHANGED <<eventVars, _ids, pc, call, fireEvent, registered, invalidated,
                   result, viewVars, thrown, propertyVars>>

\* Collection::~Collection() {}: the members are destroyed, _items with the
\* items it owns; no event is fired, and the collection takes no call any
\* more
DestroyCollection ==
    /\ pc = "idle"
    /\ call' = Call("~Collection", NoId, NULL, NoValue, size)
    /\ thrown' = NoException
    /\ heap' = [p \in Ptrs |->
                  IF \E id \in Ids : _items[id] = p
                  THEN DestroyedItem ELSE heap[p]]
    /\ _items' = [id \in Ids |-> NULL]
    /\ _ids' = {}
    /\ fired' = <<>>
    /\ pc' = "destroyed"
    /\ result' = NULL
    /\ UNCHANGED <<eventVars, fireVars, viewVars, propertyVars>>

\* [mutant] the lookup of an absent key yields the null pointer of operator[]
map_at_unchecked(id) == [thrown |-> NoException, returned |-> _items[id]]

\* std::map::at(id): the mapped pointer, or std::out_of_range thrown
map_at(id) ==
    IF _items[id] # NULL THEN [thrown |-> NoException, returned |-> _items[id]]
                         ELSE [thrown |-> "out_of_range"]

\* Collection::findById(id), called by client code: return *_items.at(id)
FindById(id) ==
    /\ pc = "idle"
    /\ call' = Call("findById", id, _items[id], NoValue, size)
    /\ thrown' = map_at(id).thrown
    /\ result' = IF map_at(id).thrown = NoException THEN map_at(id).returned ELSE result
    /\ fired' = <<>>
    /\ UNCHANGED <<eventVars, collectionVars, pc, fireVars, viewVars, propertyVars>>

----------------------------------------------------------------------------
(* Collection::sort *)

CompareFunctions == {"ascending", "descending"}

\* compareFunction(*i1, *i2) on two live items: by id, in the named direction
compareFunction(cmp, i1, i2) ==
    IF cmp = "ascending" THEN heap[i1].id < heap[i2].id
                         ELSE heap[i1].id > heap[i2].id

\* the values of _items in the order std::map iterates: ascending key
RECURSIVE mapValues(_)
mapValues(keys) ==
    IF keys = {} THEN <<>>
    ELSE LET k == CHOOSE x \in keys : \A y \in keys : x <= y
         IN  <<_items[k]>> \o mapValues(keys \ {k})

\* vector<SmartItemPointer> sortVector(_items.size()) holds size() null
\* pointers, and the loop pushes the size() items behind them
sortVector == [i \in 1..size |-> NULL] \o mapValues({id \in Ids : contains(id)})

\* the rearrangements of a vector
Count(s, x) == Cardinality({i \in DOMAIN s : s[i] = x})
Permutations_(s) ==
    {t \in [DOMAIN s -> Range(s)] : \A x \in Range(s) : Count(t, x) = Count(s, x)}

\* item->id() read through a null pointer yields no defined value
GarbageIds == Ids \cup {NoId}

\* vector<Id> sortedIds(sortVector.size()) holds as many Id() as sortVector
\* has entries, and the loop pushes one id per entry of sortVector behind
\* them; ids is the sequence of ids the loop read
sortedIds(readIds) == [i \in 1..Len(readIds) |-> NoId] \o readIds

\* the ids the last loop can read from the sorted vector sv
readableIds(sv) ==
    {r \in [DOMAIN sv -> GarbageIds] :
        \A i \in DOMAIN sv : sv[i] # NULL => r[i] = heap[sv[i]].id}

\* Collection::sort(compareFunction).  With items in the collection the
\* comparator dereferences the null entries of sortVector: undefined
\* behaviour, whose outcomes are a crash or a vector in any order with any
\* id read where the entry is null.
Sort(cmp) ==
    /\ pc = "idle"
    /\ call' = Call("sort", NoId, NULL, cmp, size)
    /\ thrown' = NoException
    /\ fired' = <<>>
    /\ IF size > 0
       THEN \/ /\ pc' = "crashed"
               /\ UNCHANGED sortView
            \/ /\ \E sv \in Permutations_(sortVector) : \E r \in readableIds(sv) :
                      sortView' = sortedIds(r)
               /\ UNCHANGED pc
       ELSE /\ sortView' = <<>>
            /\ UNCHANGED pc
    /\ UNCHANGED <<eventVars, collectionVars, fireVars, result, propertyVars, frames>>

----------------------------------------------------------------------------
(* SortView *)

\* SortView::size
SortView_size == Len(sortView)

\* [mutant] unchecked access: an index past the end reads the default Id
vector_at_unchecked(v, index) ==
    IF index < Len(v) THEN [thrown |-> NoException, returned |-> v[index + 1]]
                      ELSE [thrown |-> NoException, returned |-> NoId]

\* std::vector::at(index), index counted from 0: the element, or
\* std::out_of_range thrown
vector_at(v, index) ==
    IF index < Len(v) THEN [thrown |-> NoException, returned |-> v[index + 1]]
                      ELSE [thrown |-> "out_of_range"]

\* the indexes client code passes: the first and the last position and the
\* one behind the last; as an int also a negative one
Indexes == {i \in {0, SortView_size - 1, SortView_size} : i >= 0}
IntIndexes == Indexes \cup {-1}

\* SortView::at(const size_type index): return _sortedIds.at(index)
At(index) ==
    /\ pc = "idle"
    /\ call' = Call("at", index, NULL, NoValue, size)
    /\ thrown' = vector_at(sortView, index).thrown
    /\ result' = IF vector_at(sortView, index).thrown = NoException
                 THEN vector_at(sortView, index).returned ELSE result
    /\ fired' = <<>>
    /\ UNCHANGED <<eventVars, collectionVars, pc, fireVars, viewVars, propertyVars>>

\* SortView::at(const int index), called by client code: the first frame
AtInt(index) ==
    /\ pc = "idle"
    /\ call' = Call("at(int)", index, NULL, NoValue, size)
    /\ thrown' = NoException
    /\ fired' = <<>>
    /\ pc' = "at(int)"
    /\ frames' = 1
    /\ UNCHANGED <<eventVars, collectionVars, fireVars, result, sortView, propertyVars>>

\* the body of SortView::at(const int index): return at(index), where index
\* is a const int, so overload resolution picks at(const int) again
AtIntCalls ==
    /\ pc = "at(int)"
    /\ frames < MaxFrames
    /\ frames' = frames + 1
    /\ UNCHANGED <<eventVars, collectionVars, pc, call, fireVars, fired, result,
                   sortView, thrown, propertyVars>>

\* the recursion has used up the stack
AtIntOverflows ==
    /\ pc = "at(int)"
    /\ frames = MaxFrames
    /\ pc' = "crashed"
    /\ UNCHANGED <<eventVars, collectionVars, call, fireVars, fired, result,
                   viewVars, thrown, propertyVars>>

\* recursion without end and without side effects is undefined behaviour: a
\* build that assumes it away returns whatever the result register holds
AtIntUndefined ==
    /\ pc = "at(int)"
    /\ \E id \in GarbageIds : result' = id
    /\ pc' = "idle"
    /\ frames' = 0
    /\ UNCHANGED <<eventVars, collectionVars, call, fireVars, fired, sortView,
                   thrown, propertyVars>>

----------------------------------------------------------------------------
(* Property operations *)

\* a top-level call on a Property: the operation, the Property, the
\* argument passed (nullopt: none) and what the Property held when the call
\* was made
PropertyCall(op, p, arg) ==
    [op |-> op, id |-> NoId, item |-> NULL, val |-> NoValue, size |-> size,
     property |-> p, arg |-> arg, held |-> _value[p]]

\* the entry of Event::fire(args...) on an event of a Property
fireProperty(e, args) ==
    /\ pc' = "firing"
    /\ fireEvent' = e
    /\ fireIdx' = 1
    /\ registered' = _subscribers[e]
    /\ invoked' = <<>>
    /\ invalidated' = FALSE
    /\ fired' = <<[event |-> e] @@ args>>

\* [mutant] setValue notifies only when the value differs from the one held
setValue_onChange(p, v) ==
    /\ _value' = [_value EXCEPT ![p] = optional(v)]
    /\ IF _value[p] # optional(v)
       THEN fireProperty(valueChangedEvent(p), [sender |-> p, value |-> v])
       ELSE fired' = <<>> /\ UNCHANGED <<pc, fireVars>>

\* [mutant] setValue notifies first and would store the value afterwards
setValue_deferred(p, v) ==
    /\ _value' = _value
    /\ fireProperty(valueChangedEvent(p), [sender |-> p, value |-> v])

\* Property::setValue(value): _value = value; _valueChanged.fire(*this, value)
setValue(p, v) ==
    /\ _value' = [_value EXCEPT ![p] = optional(v)]
    /\ fireProperty(valueChangedEvent(p), [sender |-> p, value |-> v])

\* Property::setValue(value), called by client code
SetValue(p, v) ==
    /\ pc = "idle"
    /\ call' = PropertyCall("setValue", p, optional(v))
    /\ thrown' = NoException
    /\ setValue(p, v)
    /\ UNCHANGED <<eventVars, collectionVars, result, viewVars, compared>>

\* Property::operator=(value): setValue(value); return *this
Assign(p, v) ==
    /\ pc = "idle"
    /\ call' = PropertyCall("operator=", p, optional(v))
    /\ thrown' = NoException
    /\ setValue(p, v)
    /\ UNCHANGED <<eventVars, collectionVars, result, viewVars, compared>>

\* [mutant] clear notifies only when the Property held a value
clear_guarded(p) ==
    /\ _value' = [_value EXCEPT ![p] = nullopt]
    /\ IF has_value(_value[p])
       THEN fireProperty(clearedEvent(p), [sender |-> p])
       ELSE fired' = <<>> /\ UNCHANGED <<pc, fireVars>>

\* Property::clear(): _value.reset(); _cleared.fire(*this)
clear(p) ==
    /\ _value' = [_value EXCEPT ![p] = nullopt]
    /\ fireProperty(clearedEvent(p), [sender |-> p])

\* Property::clear(), called by client code
ClearProperty(p) ==
    /\ pc = "idle"
    /\ call' = PropertyCall("Property::clear", p, nullopt)
    /\ thrown' = NoException
    /\ clear(p)
    /\ UNCHANGED <<eventVars, collectionVars, result, viewVars, compared>>

\* Property::value(), called by client code: return _value.value()
Value(p) ==
    /\ pc = "idle"
    /\ call' = PropertyCall("value", p, nullopt)
    /\ thrown' = value(_value[p]).thrown
    /\ result' = IF value(_value[p]).thrown = NoException
                 THEN value(_value[p]).returned ELSE result
    /\ fired' = <<>>
    /\ UNCHANGED <<eventVars, collectionVars, pc, fireVars, viewVars, propertyVars>>

\* [mutant] equality as the first version of model.h had it: two Properties
\* without a value are not equal
operator_eq_holdingOnly(p1, p2) ==
    Property_hasValue(p1) /\ Property_hasValue(p2) /\ _value[p1][1] = _value[p2][1]

\* operator==(const Property<T>&, const Property<T>&)
operator_eq(p1, p2) ==
    \/ Property_isEmpty(p1) /\ Property_isEmpty(p2)
    \/ Property_hasValue(p1) /\ Property_hasValue(p2) /\ _value[p1][1] = _value[p2][1]

\* operator!=(const Property<T>&, const Property<T>&)
operator_ne(p1, p2) == ~operator_eq(p1, p2)

\* [mutant] a Property without a value is below every Property
operator_lt_emptyBelowAll(p1, p2) ==
    \/ Property_isEmpty(p1)
    \/ Property_hasValue(p1) /\ Property_hasValue(p2) /\ _value[p1][1] < _value[p2][1]

\* operator<(const Property<T>&, const Property<T>&)
operator_lt(p1, p2) ==
    \/ Property_isEmpty(p1) /\ Property_hasValue(p2)
    \/ Property_hasValue(p1) /\ Property_hasValue(p2) /\ _value[p1][1] < _value[p2][1]

\* operator>(const Property<T>&, const Property<T>&)
operator_gt(p1, p2) ==
    \/ Property_hasValue(p1) /\ Property_isEmpty(p2)
    \/ Property_hasValue(p1) /\ Property_hasValue(p2) /\ _value[p1][1] > _value[p2][1]

\* Property::operator==(const T&)
Property_operator_eq(p, x) == has_value(_value[p]) /\ _value[p][1] = x

\* Property::operator!=(const T&)
Property_operator_ne(p, x) == ~has_value(_value[p]) \/ _value[p][1] # x

\* [mutant] a Property without a value is not below a value
Property_operator_lt_holdingOnly(p, x) == has_value(_value[p]) /\ _value[p][1] < x

\* Property::operator<(const T&)
Property_operator_lt(p, x) == ~has_value(_value[p]) \/ _value[p][1] < x

\* Property::operator>(const T&)
Property_operator_gt(p, x) == has_value(_value[p]) /\ _value[p][1] > x

\* client code evaluates p1 == p2, p1 != p2, p1 < p2 and p1 > p2
Compare(p1, p2) ==
    /\ pc = "idle"
    /\ call' = PropertyCall("compare", p1, nullopt)
    /\ thrown' = NoException
    /\ compared' = [kind |-> "properties", lhs |-> _value[p1], rhs |-> _value[p2],
                    x |-> 0,
                    eq |-> operator_eq(p1, p2), ne |-> operator_ne(p1, p2),
                    lt |-> operator_lt(p1, p2), gt |-> operator_gt(p1, p2)]
    /\ fired' = <<>>
    /\ UNCHANGED <<eventVars, collectionVars, pc, fireVars, result, viewVars, _value>>

\* client code evaluates p == x, p != x, p < x and p > x for a bare value x
CompareValue(p, x) ==
    /\ pc = "idle"
    /\ call' = PropertyCall("compareValue", p, nullopt)
    /\ thrown' = NoException
    /\ compared' = [kind |-> "value", lhs |-> _value[p], rhs |-> nullopt, x |-> x,
                    eq |-> Property_operator_eq(p, x), ne |-> Property_operator_ne(p, x),
                    lt |-> Property_operator_lt(p, x), gt |-> Property_operator_gt(p, x)]
    /\ fired' = <<>>
    /\ UNCHANGED <<eventVars, collectionVars, pc, fireVars, result, viewVars, _value>>

----------------------------------------------------------------------------
(* Specifications *)

NextEvent ==
    \/ \E h \in Handlers, e \in StandaloneEvents, m \in Methods : Connect(h, e, m)
    \/ \E e \in StandaloneEvents, h \in Handlers : Unsubscribe(e, h)
    \/ \E h \in Handlers : DestroyHandler(h)
    \/ \E e \in StandaloneEvents : Fire(e)
    \/ Invoke
    \/ FireReturn

SpecEvent == Init /\ [][NextEvent]_vars

\* one standalone event, with handlers that connect either of two methods
NextSubscription ==
    \/ \E h \in Handlers, m \in TwoMethods : Connect(h, "myEvent", m)
    \/ \E h \in Handlers : Unsubscribe("myEvent", h)
    \/ Fire("myEvent")
    \/ Invoke
    \/ FireReturn

SpecSubscription == Init /\ [][NextSubscription]_vars

\* the standalone events, with callbacks that may throw
NextEventFail ==
    \/ NextEvent
    \/ InvokeThrows

SpecEventFail == Init /\ [][NextEventFail]_vars

\* the standalone events, with callbacks that subscribe to or unsubscribe
\* from the event that is firing
NextReentrant ==
    \/ \E h \in Handlers, e \in StandaloneEvents, m \in Methods : Connect(h, e, m)
    \/ \E e \in StandaloneEvents : Fire(e)
    \/ Invoke
    \/ \E h \in Handlers : InvokeUnsubscribing(h)
    \/ \E h \in Handlers, m \in Methods : InvokeConnecting(h, m)
    \/ InvokeInvalidated
    \/ FireReturn

SpecReentrant == Init /\ [][NextReentrant]_vars

NextCollection ==
    \/ \E h \in Observers, e \in CollectionEvents, m \in Methods : Connect(h, e, m)
    \/ \E id \in Ids, val \in Values : Add(id, val)
    \/ \E id \in Ids, val \in Values : AddCopy(id, val)
    \/ \E id \in Ids : RemoveById(id)
    \/ \E item \in Ptrs : Remove(item)
    \/ Clear
    \/ Invoke
    \/ FireReturn

SpecCollection == Init /\ [][NextCollection]_vars

\* the collection nobody observes, with lookups
NextItems ==
    \/ \E id \in Ids, val \in Values : Add(id, val)
    \/ \E id \in Ids, val \in Values : AddCopy(id, val)
    \/ \E id \in Ids : RemoveById(id)
    \/ \E item \in Ptrs : Remove(item)
    \/ Clear
    \/ \E id \in Ids : FindById(id)
    \/ FireReturn

SpecItems == Init /\ [][NextItems]_vars

NextSort ==
    \/ \E id \in Ids, val \in Values : Add(id, val)
    \/ \E id \in Ids : RemoveById(id)
    \/ Clear
    \/ FireReturn
    \/ \E cmp \in CompareFunctions : Sort(cmp)

SpecSort == Init /\ [][NextSort]_vars

\* a collection whose itemAdded callbacks change the collection
NextReentrantAdd ==
    \/ \E h \in Observers, m \in Methods : Connect(h, "itemAdded", m)
    \/ \E id \in Ids : Add(id, "a")
    \/ \E id \in Ids : AddCopy(id, "a")
    \/ Invoke
    \/ \E id \in Ids : InvokeRemovingById(id)
    \/ InvokeClearing
    \/ FireReturn

SpecReentrantAdd == Init /\ [][NextReentrantAdd]_vars

\* handlers and events created and destroyed in any order
NextLifetime ==
    \/ \E h \in Handlers, e \in StandaloneEvents, m \in Methods : Connect(h, e, m)
    \/ \E e \in StandaloneEvents : DestroyEvent(e)
    \/ \E h \in Handlers : DestroyHandler(h)
    \/ \E h \in Handlers : DestroyHandlerDangling(h)
    \/ \E e \in StandaloneEvents : Fire(e)
    \/ Invoke
    \/ FireReturn

SpecLifetime == Init /\ [][NextLifetime]_vars

\* the collection and the items it owns, up to its destruction
NextOwnership ==
    \/ \E id \in Ids, val \in Values : Add(id, val)
    \/ \E id \in Ids, val \in Values : AddCopy(id, val)
    \/ \E id \in Ids : RemoveById(id)
    \/ \E item \in Ptrs : Remove(item)
    \/ Clear
    \/ FireReturn
    \/ DestroyCollection

SpecOwnership == Init /\ [][NextOwnership]_vars

\* a SortView and the collection it was made from
NextSnapshot ==
    \/ \E id \in Ids : Add(id, "a")
    \/ \E id \in Ids : AddCopy(id, "a")
    \/ \E id \in Ids : RemoveById(id)
    \/ \E item \in Ptrs : Remove(item)
    \/ Clear
    \/ FireReturn
    \/ \E cmp \in CompareFunctions : Sort(cmp)

SpecSnapshot == Init /\ [][NextSnapshot]_vars

\* a SortView and its index access
NextSortView ==
    \/ \E id \in Ids : Add(id, "a")
    \/ FireReturn
    \/ \E cmp \in CompareFunctions : Sort(cmp)
    \/ \E index \in Indexes : At(index)
    \/ \E index \in IntIndexes : AtInt(index)
    \/ AtIntCalls
    \/ AtIntOverflows
    \/ AtIntUndefined

SpecSortView == Init /\ [][NextSortView]_vars

\* every step the program can take is taken in the end
SpecSortViewFair == SpecSortView /\ WF_vars(NextSortView)

NextProperty ==
    \/ \E h \in Observers, e \in PropertyEvents, m \in Methods : Connect(h, e, m)
    \/ \E p \in Properties, v \in PropertyValues : SetValue(p, v)
    \/ \E p \in Properties, v \in PropertyValues : Assign(p, v)
    \/ \E p \in Properties : ClearProperty(p)
    \/ \E p \in Properties : Value(p)
    \/ Invoke
    \/ FireReturn

SpecProperty == InitProperty /\ [][NextProperty]_vars

\* a Property and a Collection whose observers may fail
NextNotifyFail ==
    \/ \E h \in Observers, e \in {"p1.valueChanged", "itemAdded"}, m \in Methods :
          Connect(h, e, m)
    \/ \E v \in PropertyValues : SetValue("p1", v)
    \/ \E id \in Ids : Add(id, "a")
    \/ Invoke
    \/ InvokeThrows
    \/ FireReturn

SpecNotifyFail == InitProperty /\ [][NextNotifyFail]_vars

\* the comparisons, on Properties nobody observes
NextCompare ==
    \/ \E p \in Properties, v \in PropertyValues : SetValue(p, v)
    \/ \E p \in Properties : ClearProperty(p)
    \/ FireReturn
    \/ \E p1 \in Properties, p2 \in Properties : Compare(p1, p2)
    \/ \E p \in Properties, x \in BareValues : CompareValue(p, x)

SpecCompare == InitProperty /\ [][NextCompare]_vars

----------------------------------------------------------------------------
(* Properties *)

EntriesOf(h, e) ==
    {i \in DOMAIN _subscribers[e] : representsEventHandler(_subscribers[e][i], h)}

NotOf(h, subscribers) ==
    SelectSeq(subscribers, LAMBDA sub : ~representsEventHandler(sub, h))

Stored == {id \in Ids : _items[id] # NULL}

\* C1: once an EventHandler is destroyed, no event it was connected to holds
\* an entry with its identity and no fire that runs afterwards invokes it;
\* its destruction removes exactly its own entries, so the entries of every
\* other handler stay, in their order, and a fire that has returned has
\* invoked every entry the event holds.
C1_DestroyedHandlerUnsubscribed ==
    /\ [](\A h \in Handlers : ~handlerAlive[h] =>
            /\ \A e \in Range(_connectedEvents[h]) : EntriesOf(h, e) = {}
            /\ pc = "firing" =>
                 \A i \in DOMAIN invoked : ~representsEventHandler(invoked[i], h))
    /\ []((pc = "idle" /\ call.op = "fire") => invoked = _subscribers[fireEvent])
    /\ [][\A h \in Handlers : (handlerAlive[h] /\ ~handlerAlive'[h]) =>
            \A e \in Events : _subscribers'[e] = NotOf(h, _subscribers[e])]_vars

\* a handler connected twice to one event and once more is destroyed, and a
\* later fire of that event has reached the live handler only
C1_Witness ==
    \E h \in Handlers, g \in Handlers :
        /\ ~handlerAlive[h] /\ handlerAlive[g]
        /\ Len(_connectedEvents[h]) >= 2
        /\ pc = "idle" /\ call.op = "fire"
        /\ fireEvent \in Range(_connectedEvents[h])
        /\ invoked # <<>>
        /\ \A i \in DOMAIN invoked : representsEventHandler(invoked[i], g)

\* C2: while fire runs it has invoked exactly the entries before its
\* position, each once and in subscription order, and once it has returned
\* it has invoked every entry registered when it was called, in that order.
C2_FireInvokesAllInOrder ==
    /\ pc = "firing" =>
          /\ fireIdx \in 1..(Len(registered) + 1)
          /\ invoked = SubSeq(registered, 1, fireIdx - 1)
    /\ (pc = "idle" /\ fireEvent # NoEvent) => invoked = registered

\* a fire has returned after invoking three or more entries of two handlers
C2_Witness ==
    /\ pc = "idle" /\ call.op = "fire"
    /\ Len(invoked) >= 3
    /\ \E i, j \in DOMAIN invoked : invoked[i]._eventHandler # invoked[j]._eventHandler

C4_IdsMatchMapping ==
    /\ ids = Stored
    /\ Cardinality(ids) = size
    /\ \A id \in Ids : contains(id) <=> id \in ids

\* C5: after clear() has returned the collection is empty: isEmpty(),
\* size() = 0, ids() = {} and contains(id) is false for every id.
C5_EmptyAfterClear ==
    (pc = "idle" /\ call.op = "clear") =>
        /\ isEmpty
        /\ size = 0
        /\ ids = {}
        /\ \A id \in Ids : ~contains(id)

\* C6: clear() makes exactly one fire call, on cleared, and none on
\* itemRemoved, however many items the collection held; when clear has
\* returned every subscriber of cleared has been invoked once.
C6_ClearFiresOneCleared ==
    call.op = "clear" =>
        /\ fired = <<[event |-> "cleared", id |-> NoId, item |-> NULL]>>
        /\ fireEvent = "cleared"
        /\ pc = "idle" => invoked = _subscribers["cleared"]

\* clear() of a collection of two items has returned after notifying a
\* subscriber
C6_Witness ==
    /\ pc = "idle" /\ call.op = "clear"
    /\ call.size = 2
    /\ invoked # <<>>

\* C7: add of an item whose id is already a key of the mapping changes
\* neither the mapping nor the set nor any item allocated before, returns at
\* once and fires no event.
C7_DuplicateAddIsNoOp ==
    [][(pc = "idle" /\ call'.op = "add" /\ _items[call'.id] # NULL) =>
          /\ _items' = _items
          /\ _ids' = _ids
          /\ \A p \in Ptrs : heap[p].state # "free" => heap'[p] = heap[p]
          /\ fired' = <<>>
          /\ pc' = "idle"]_vars

\* an item with another value was added under an id already stored
C7_Witness ==
    /\ pc = "idle" /\ call.op = "add" /\ fired = <<>>
    /\ _items[call.id] # NULL /\ _items[call.id] # call.item
    /\ heap[call.item].state = "alive"
    /\ heap[_items[call.id]].val # call.val

\* C8: add of an item whose id is no key of the mapping stores that very
\* item under its id: size() grows by one, the id is in ids(), the item is
\* alive, and exactly one fire call is made, itemAdded(self, id, item), which
\* has reached every subscriber of itemAdded when add has returned.
C8_AddAdoptsItem ==
    /\ [][(pc = "idle" /\ call'.op = "add" /\ _items[call'.id] = NULL) =>
            /\ sizeOf(_items') = sizeOf(_items) + 1
            /\ _items'[call'.id] = call'.item
            /\ call'.id \in _ids'
            /\ heap'[call'.item] = [id |-> call'.id, val |-> call'.val, state |-> "alive"]
            /\ fired' = <<[event |-> "itemAdded", id |-> call'.id, item |-> call'.item]>>
            /\ pc' = "firing" /\ fireEvent' = "itemAdded"]_vars
    /\ []((pc = "idle" /\ call.op = "add" /\ fired # <<>>) =>
            /\ _items[call.id] = call.item
            /\ size = call.size + 1
            /\ invoked = _subscribers["itemAdded"])

\* a second item was added and the add has returned after notifying a
\* subscriber
C8_Witness ==
    /\ pc = "idle" /\ call.op = "add" /\ fired # <<>>
    /\ call.size = 1 /\ size = 2
    /\ invoked # <<>>

\* C9: sort returns a SortView that holds every id of the collection exactly
\* once and nothing else, in an order in which no later item compares less
\* than an earlier one.
C9_SortViewIsSortedIds ==
    call.op = "sort" =>
        /\ pc = "idle"
        /\ Len(sortView) = size
        /\ Range(sortView) = Stored
        /\ \A i, j \in DOMAIN sortView :
              i < j => ~compareFunction(call.val, _items[sortView[j]], _items[sortView[i]])

\* C10: when addCopy(v) has returned, what it returned is the item the
\* collection stores under the id of v, a newly allocated instance with the
\* fields of v.
C10_AddCopyReturnsStoredItem ==
    (pc = "idle" /\ call.op = "addCopy") =>
        /\ result # NULL
        /\ result = call.item
        /\ _items[call.id] = result
        /\ heap[_items[call.id]] = [id |-> call.id, val |-> call.val, state |-> "alive"]

\* the calls that set a Property: setValue(v) and the assignment of v
Setters == {"setValue", "operator="}

\* C11: setValue(v), or assigning v, leaves the Property holding v and makes
\* exactly one fire call, valueChanged(self, v), whatever the Property held
\* before (nothing, v itself, or another value); when the call has returned
\* the Property still holds v and every subscriber of valueChanged has been
\* invoked once.
C11_SetValueFiresValueChanged ==
    /\ [][(pc = "idle" /\ call'.op \in Setters) =>
            /\ _value'[call'.property] = call'.arg
            /\ \A q \in Properties \ {call'.property} : _value'[q] = _value[q]
            /\ fired' = <<[event |-> valueChangedEvent(call'.property),
                           sender |-> call'.property, value |-> call'.arg[1]]>>
            /\ pc' = "firing"
            /\ fireEvent' = valueChangedEvent(call'.property)]_vars
    /\ []((pc = "idle" /\ call.op \in Setters) =>
            /\ _value[call.property] = call.arg
            /\ Len(fired) = 1
            /\ invoked = _subscribers[valueChangedEvent(call.property)])

\* a Property that held v was set to v again, and the subscriber of its
\* valueChanged event has been notified
C11_Witness ==
    /\ pc = "idle" /\ call.op \in Setters
    /\ call.held = call.arg
    /\ invoked # <<>>

\* C12: clear() leaves the Property without a value and makes exactly one
\* fire call, cleared(self), also when the Property held nothing before;
\* when the call has returned every subscriber of cleared has been invoked
\* once.
C12_ClearFiresCleared ==
    /\ [][(pc = "idle" /\ call'.op = "Property::clear") =>
            /\ ~has_value(_value'[call'.property])
            /\ \A q \in Properties \ {call'.property} : _value'[q] = _value[q]
            /\ fired' = <<[event |-> clearedEvent(call'.property),
                           sender |-> call'.property]>>
            /\ pc' = "firing"
            /\ fireEvent' = clearedEvent(call'.property)]_vars
    /\ []((pc = "idle" /\ call.op = "Property::clear") =>
            /\ Property_isEmpty(call.property)
            /\ Len(fired) = 1
            /\ invoked = _subscribers[clearedEvent(call.property)])

\* a Property that held nothing was cleared, and the subscriber of its
\* cleared event has been notified
C12_Witness ==
    /\ pc = "idle" /\ call.op = "Property::clear"
    /\ call.held = nullopt
    /\ invoked # <<>>

\* C13: a Property is always either empty or holding a value, isEmpty being
\* the negation of hasValue; a Property constructed without a value is
\* empty; value() returns the value held, and on an empty Property it throws
\* and returns nothing, and in neither case changes the Property.
C13_ValueOfEmptyThrows ==
    /\ [](\A p \in Properties : Property_isEmpty(p) # Property_hasValue(p))
    /\ [](~has_value(Property))
    /\ [][(pc = "idle" /\ call'.op = "value") =>
            /\ _value' = _value
            /\ pc' = "idle"
            /\ IF Property_isEmpty(call'.property)
               THEN thrown' = "bad_optional_access" /\ result' = result
               ELSE thrown' = NoException /\ result' = _value[call'.property][1]]_vars

\* value() was called on an empty Property and threw
C13_Witness ==
    /\ call.op = "value"
    /\ Property_isEmpty(call.property)
    /\ thrown = "bad_optional_access"

\* C14: for two Properties p1 and p2, p1 == p2 is true when both are empty,
\* false when exactly one is empty, and the equality of the two values when
\* both hold one; p1 != p2 is the negation of p1 == p2.
C14_PropertyEquality ==
    compared.kind = "properties" =>
        LET l == compared.lhs
            r == compared.rhs
        IN  /\ (l = nullopt /\ r = nullopt) => compared.eq
            /\ ((l = nullopt) # (r = nullopt)) => ~compared.eq
            /\ (l # nullopt /\ r # nullopt) => (compared.eq <=> l[1] = r[1])
            /\ compared.ne <=> ~compared.eq

\* two empty Properties were compared and found equal
C14_Witness ==
    /\ compared.kind = "properties"
    /\ compared.lhs = nullopt /\ compared.rhs = nullopt
    /\ compared.eq /\ ~compared.ne

\* C15: for two Properties p1 and p2, an empty one is below a holding one
\* and a holding one above an empty one, two empty ones are neither below
\* nor above each other, two holding ones compare as their values do, and
\* p1 < p2 exactly when p2 > p1.
C15_PropertyOrdering ==
    /\ compared.kind = "properties" =>
          LET l == compared.lhs
              r == compared.rhs
          IN  /\ (l = nullopt /\ r # nullopt) => (compared.lt /\ ~compared.gt)
              /\ (l # nullopt /\ r = nullopt) => (compared.gt /\ ~compared.lt)
              /\ (l = nullopt /\ r = nullopt) => (~compared.lt /\ ~compared.gt)
              /\ (l # nullopt /\ r # nullopt) =>
                    /\ compared.lt <=> l[1] < r[1]
                    /\ compared.gt <=> l[1] > r[1]
    /\ \A p1 \in Properties, p2 \in Properties :
          operator_lt(p1, p2) <=> operator_gt(p2, p1)

\* an empty Property was compared with a holding one and found below it
C15_Witness ==
    /\ compared.kind = "properties"
    /\ compared.lhs = nullopt /\ compared.rhs # nullopt
    /\ compared.lt /\ ~compared.gt

\* C16: for a Property p and a bare value x: with p empty, p < x and p != x
\* are true and p > x and p == x are false; with p holding v each of the
\* four is the comparison of v with x.
C16_PropertyAgainstValue ==
    compared.kind = "value" =>
        LET l == compared.lhs
            x == compared.x
        IN  /\ l = nullopt =>
                  compared.lt /\ ~compared.gt /\ ~compared.eq /\ compared.ne
            /\ l # nullopt =>
                  /\ compared.lt <=> l[1] < x
                  /\ compared.gt <=> l[1] > x
                  /\ compared.eq <=> l[1] = x
                  /\ compared.ne <=> l[1] # x

\* an empty Property was compared with the value 0 and found below it
C16_Witness ==
    /\ compared.kind = "value"
    /\ compared.lhs = nullopt /\ compared.x = 0
    /\ compared.lt /\ ~compared.gt /\ ~compared.eq /\ compared.ne

\* C17: when a callback throws while fire is delivering, the exception
\* leaves fire and the call that made it; the entries before the failing one
\* have been invoked once each, in order, the entries after it are not
\* invoked for that firing, and the subscriber list is as it was.
C17_FailingCallbackAbortsFire ==
    /\ [][(pc = "firing" /\ thrown = NoException /\ thrown' # NoException) =>
            /\ pc' = "idle"
            /\ _subscribers' = _subscribers
            /\ invoked' = SubSeq(registered, 1, fireIdx)]_vars
    /\ [][(thrown # NoException /\ thrown' # NoException) =>
            invoked' = invoked]_vars
    /\ [](thrown = CallbackError =>
            /\ pc = "idle"
            /\ Len(invoked) \in 1..Len(registered)
            /\ invoked = SubSeq(registered, 1, Len(invoked))
            /\ _subscribers[fireEvent] = registered)

\* the second of three subscribers threw: the first was invoked, the third
\* was not
C17_Witness ==
    /\ thrown = CallbackError
    /\ Len(registered) = 3
    /\ Len(invoked) = 2

\* C18: while fire delivers and callbacks subscribe to or unsubscribe from
\* the firing event, the loop never reads through an invalidated iterator or
\* at a position outside the vector as it now is, nothing crashes, and when
\* fire has returned every entry that was registered when it began and
\* still is has been invoked exactly once.
C18_FireSafeUnderReentrantChange ==
    /\ pc # "crashed"
    /\ (pc = "firing" /\ ~fireAtEnd(fireEvent, fireIdx)) =>
          fireAtEntry(fireEvent, fireIdx)
    /\ (pc = "idle" /\ call.op = "fire") =>
          \A entry \in Range(registered) :
              Count(_subscribers[fireEvent], entry) >= Count(registered, entry) =>
                  Count(invoked, entry) = Count(registered, entry)

\* C19: every connect (and with it every subscribe) appends one entry to the
\* event, also when the event already holds an entry of the same handler
\* with the same method; and a fire has, when it returns, invoked each
\* handler/method pair as many times as the event holds an entry of it.
C19_SubscriptionsNotDeduplicated ==
    /\ [][\A h \in Handlers, e \in StandaloneEvents :
            (pc = "idle" /\ call'.op = "connect"
                /\ _connectedEvents'[h] = Append(_connectedEvents[h], e)) =>
                \E m \in TwoMethods :
                    /\ _subscribers'[e] = Append(_subscribers[e], Subscriber(h, m))
                    /\ Count(_subscribers'[e], Subscriber(h, m))
                          = Count(_subscribers[e], Subscriber(h, m)) + 1]_vars
    /\ []((pc = "idle" /\ call.op = "fire") =>
            \A entry \in Range(_subscribers[fireEvent]) :
                Count(invoked, entry) = Count(_subscribers[fireEvent], entry))

\* a handler connected twice with the same method has been invoked twice by
\* one fire
C19_Witness ==
    /\ pc = "idle" /\ call.op = "fire"
    /\ \E entry \in Range(_subscribers[fireEvent]) :
          /\ Count(_subscribers[fireEvent], entry) >= 2
          /\ Count(invoked, entry) = Count(_subscribers[fireEvent], entry)

\* C20: unsubscribe(h) on an event leaves exactly the entries of that event
\* that do not represent h, in their old order, leaves every other event
\* alone, and changes nothing when no entry represents h.
C20_UnsubscribeRemovesOnlyIdentity ==
    [][\A e \in StandaloneEvents, h \in Handlers :
          Unsubscribe(e, h) =>
              /\ _subscribers'[e] = NotOf(h, _subscribers[e])
              /\ \A other \in Events \ {e} : _subscribers'[other] = _subscribers[other]
              /\ EntriesOf(h, e) = {} => _subscribers' = _subscribers]_vars

\* a handler connected twice to an event has been unsubscribed from it, and
\* two different entries of the other handler remain
C20_Witness ==
    /\ pc = "idle" /\ call.op = "unsubscribe"
    /\ \E e \in StandaloneEvents, h \in Handlers :
          /\ Count(_connectedEvents[h], e) >= 2
          /\ EntriesOf(h, e) = {}
          /\ Len(_subscribers[e]) >= 2
          /\ _subscribers[e][1] # _subscribers[e][2]

\* C21: findById(id) returns the live item stored under id when id is a key
\* of the mapping and throws when it is not; either way the mapping, the id
\* set, the items and the subscribers are as before and no fire call is
\* made.
C21_FindByIdReturnsOrThrows ==
    [][(pc = "idle" /\ call'.op = "findById") =>
          /\ collectionVars' = collectionVars
          /\ _subscribers' = _subscribers
          /\ fired' = <<>>
          /\ pc' = "idle"
          /\ IF _items[call'.id] # NULL
             THEN /\ thrown' = NoException
                  /\ result' = _items[call'.id]
                  /\ heap[result'].state = "alive"
                  /\ heap[result'].id = call'.id
             ELSE /\ thrown' = "out_of_range"
                  /\ result' = result]_vars

\* findById threw for an absent id while the collection holds another item
C21_Witness ==
    /\ call.op = "findById"
    /\ _items[call.id] = NULL
    /\ thrown = "out_of_range"
    /\ size = 1

\* the calls that remove one item
Removers == {"removeById", "remove"}

AtCalls == {"at", "at(int)"}

\* C22: a call of at, through either overload, does not crash, and when it
\* has returned it has yielded the id at position index for
\* 0 <= index < size() and has thrown for every other index.
C22_AtIsBoundsChecked ==
    call.op \in AtCalls =>
        /\ pc # "crashed"
        /\ pc = "idle" =>
              IF call.id >= 0 /\ call.id < SortView_size
              THEN thrown = NoException /\ result = sortView[call.id + 1]
              ELSE thrown = "out_of_range"

\* C29: every call of at(int) returns, with the id or the exception
\* at(size_type) gives for that index.
C29_AtIntTerminates ==
    (pc = "at(int)") ~>
        (/\ pc = "idle"
         /\ call.op = "at(int)"
         /\ IF call.id >= 0 /\ call.id < SortView_size
            THEN thrown = NoException /\ result = sortView[call.id + 1]
            ELSE thrown = "out_of_range")

\* the calls that change a Collection
Mutators == {"add", "addCopy", "removeById", "remove", "clear"}

\* C25: the ids a SortView holds, and with them its size() and every at(i),
\* are changed by no step of add, addCopy, removeById, remove or clear, nor
\* by the notifications these deliver.
C25_SortViewIsSnapshot ==
    [][call'.op \in Mutators => sortView' = sortView]_vars

\* a SortView names an id that a later removal, which has returned, took
\* out of the collection
C25_Witness ==
    /\ pc = "idle" /\ call.op \in {"removeById", "remove", "clear"}
    /\ \E i \in DOMAIN sortView :
          /\ sortView[i] # NoId
          /\ _items[sortView[i]] = NULL

\* the events of the two kinds
ValueChangedEvents == {"p1.valueChanged", "p2.valueChanged"}
ClearedEvents == {"p1.cleared", "p2.cleared"}

\* the entries of a sequence of subscribers that stand for handler h
Notifications(h, subscribers) ==
    {i \in DOMAIN subscribers : representsEventHandler(subscribers[i], h)}

\* C27: in every step of a setValue or an assignment the event fired and
\* delivered is a valueChanged event, never a cleared one, and in every step
\* of a clear it is a cleared event, never a valueChanged one; so a returned
\* setValue has notified no handler through a connection to cleared (a
\* handler without a connection to valueChanged was not notified at all),
\* and a returned clear has notified every handler once per connection it
\* has to the cleared event of the Property: one clear, one notification.
C27_EventsIndependent ==
    /\ [][call'.op \in Setters =>
            /\ fireEvent' \in ValueChangedEvents
            /\ \A i \in DOMAIN fired' : fired'[i].event \notin ClearedEvents]_vars
    /\ [][call'.op = "Property::clear" =>
            /\ fireEvent' \in ClearedEvents
            /\ \A i \in DOMAIN fired' : fired'[i].event \notin ValueChangedEvents]_vars
    /\ []((pc = "idle" /\ call.op \in Setters) =>
            \A h \in Observers :
               Cardinality(Notifications(h, invoked)) =
                  Cardinality(EntriesOf(h, valueChangedEvent(call.property))))
    /\ []((pc = "idle" /\ call.op = "Property::clear") =>
            \A h \in Observers :
               Cardinality(Notifications(h, invoked)) =
                  Cardinality(EntriesOf(h, clearedEvent(call.property))))

\* a handler connected to the cleared event of a Property, and not to its
\* valueChanged event, was not notified by a setValue that has returned
C27_Witness ==
    /\ pc = "idle" /\ call.op \in Setters
    /\ \E h \in Observers :
          /\ EntriesOf(h, clearedEvent(call.property)) # {}
          /\ EntriesOf(h, valueChangedEvent(call.property)) = {}
          /\ Notifications(h, invoked) = {}

\* C30: while fire delivers for setValue(v) the Property already holds v,
\* and while it delivers for add the collection already contains the id and
\* stores the item; when a callback has failed, the call has ended with that
\* failure and the Property still holds v, the collection still contains
\* and owns the item.
C30_UpdatedBeforeNotification ==
    /\ (pc = "firing" /\ call.op \in Setters) =>
          _value[call.property] = call.arg
    /\ (pc = "firing" /\ call.op = "add") =>
          contains(call.id) /\ _items[call.id] = call.item
    /\ (thrown = CallbackError /\ call.op \in Setters) =>
          pc = "idle" /\ _value[call.property] = call.arg
    /\ (thrown = CallbackError /\ call.op = "add") =>
          /\ pc = "idle"
          /\ contains(call.id) /\ _items[call.id] = call.item
          /\ heap[call.item].state = "alive"

\* a valueChanged callback of a setValue that changed the value failed, in
\* a run in which the collection has stored an item
C30_Witness ==
    /\ thrown = CallbackError /\ call.op \in Setters
    /\ call.held # call.arg
    /\ invoked # <<>>
    /\ Stored # {}

\* C26: a call remove(item) does what removeById(_idFunction(item)) does
\* from the same state, _idFunction being the function given at
\* construction: the same id reaches removeById, the collection is left in
\* the same state and the same event is fired.
C26_RemoveIsRemoveByIdOfExtractedId ==
    [][(pc = "idle" /\ call'.op = "remove") =>
          /\ call'.id = _idFunction(call'.passed)
          /\ removeById(_idFunction(call'.passed))]_vars

\* the items the collection owns, and the calls that end an ownership
Owned == {_items[id] : id \in Stored}
Releasers == {"removeById", "remove", "clear", "~Collection"}

\* C28: an item passed to add or addCopy under an id already present is not
\* stored and stays alive in that call; an item that is alive and not owned
\* stays alive and not owned in every later step, the destruction of the
\* collection included; an owned item is alive and owned under one id only;
\* an item is destroyed only in a step of removeById, remove, clear or the
\* destructor in which it leaves the mapping, an owned item that leaves the
\* mapping is destroyed in that step, and a destroyed item is never owned or
\* destroyed again; after the destruction nothing is owned.
C28_DuplicateLeakedAdoptedDestroyedOnce ==
    /\ [][(pc = "idle" /\ call'.op \in {"add", "addCopy"} /\ contains(call'.id)) =>
            /\ heap'[call'.item].state = "alive"
            /\ call'.item \notin Owned'
            /\ Owned' = Owned]_vars
    /\ [][\A p \in Ptrs :
            /\ (heap[p].state = "alive" /\ p \notin Owned) =>
                  (heap'[p].state = "alive" /\ p \notin Owned')
            /\ (heap[p].state = "alive" /\ heap'[p].state # "alive") =>
                  (p \in Owned /\ p \notin Owned' /\ call'.op \in Releasers)
            /\ (p \in Owned /\ p \notin Owned') => heap'[p].state = "destroyed"
            /\ heap[p].state = "destroyed" =>
                  (heap'[p].state = "destroyed" /\ p \notin Owned')]_vars
    /\ [](\A id \in Stored :
            /\ heap[_items[id]].state = "alive"
            /\ \A other \in Stored : _items[other] = _items[id] => other = id)
    /\ [](pc = "destroyed" => Owned = {})

\* the collection was destroyed: the item it had adopted is destroyed, the
\* item of a duplicate add is still alive
C28_Witness ==
    /\ pc = "destroyed" /\ call.size > 0
    /\ \E p \in Ptrs : heap[p].state = "alive"
    /\ \E p \in Ptrs : heap[p].state = "destroyed"

\* C24: whenever the destructor of an EventHandler runs, every event the
\* handler has recorded still exists, so that no unsubscribe is called on a
\* destroyed event, and the destructor does not crash.
C24_DestructorSkipsDestroyedEvents ==
    [][\A h \in Handlers :
          (handlerAlive[h] /\ ~handlerAlive'[h]) =>
              /\ \A e \in Range(_connectedEvents[h]) : eventAlive[e]
              /\ pc' # "crashed"]_vars

\* C31: whenever a callback is entered during the delivery of itemAdded for
\* an add or addCopy, the item passed to it is alive and is the item the
\* collection stores under the id, also when an earlier callback of the
\* same delivery has called removeById or clear on the collection.
C31_ItemAliveForEveryCallback ==
    [][(pc = "firing" /\ call.op \in {"add", "addCopy"} /\ invoked' # invoked) =>
          /\ heap[call.item].state = "alive"
          /\ _items[call.id] = call.item]_vars

=============================================================================
